---- MODULE Spec2Model ----
(***************************************************************************)
(* StrataMind design dashboard: the Dashboard page (result, activeSim,     *)
(* loading), the Viewer3D component it mounts (isCutaway, the canvas, the  *)
(* snapshot handle) and the DetailedBuilding model inside it (parameter    *)
(* parsing, style resolution, floor generation and the per-frame update of *)
(* the model rotation and the flood plane).                                *)
(*                                                                         *)
(* Numbers.  JavaScript numbers are modelled exactly, as integers counting *)
(* a fixed unit per quantity:                                              *)
(*   angles     1 rad = RadUnits                                           *)
(*   heights    1     = WaterUnits      (flood plane position.y)           *)
(*   opacity    1     = OpacityUnits                                       *)
(*   taper      in hundredths,  PGA in hundredths,  sines in tenths        *)
(* The units carry a factor 10^MaxFrames (100^MaxFrames) so that every     *)
(* interpolation a canvas can execute in MaxFrames frames divides exactly: *)
(* no rounding is introduced by the model (LerpExact checks it).           *)
(***************************************************************************)
EXTENDS Integers, Sequences, FiniteSets, TLC

\* Frames one canvas instance renders before the model stops delivering frames.
MaxFrames == 3

RECURSIVE Pow(_, _)
Pow(b, e) == IF e = 0 THEN 1 ELSE b * Pow(b, e - 1)

RadUnits     == 2000 * Pow(10, MaxFrames)
WaterUnits   == Pow(100, MaxFrames)
OpacityUnits == 10 * Pow(100, MaxFrames)

Abs(n) == IF n < 0 THEN -n ELSE n

(***************************************************************************)
(* Text.  A JavaScript string is a sequence of one-character strings.      *)
(***************************************************************************)
UpperToLower ==
    ("A" :> "a") @@ ("B" :> "b") @@ ("C" :> "c") @@ ("D" :> "d") @@ ("E" :> "e") @@
    ("F" :> "f") @@ ("G" :> "g") @@ ("H" :> "h") @@ ("I" :> "i") @@ ("J" :> "j") @@
    ("K" :> "k") @@ ("L" :> "l") @@ ("M" :> "m") @@ ("N" :> "n") @@ ("O" :> "o") @@
    ("P" :> "p") @@ ("Q" :> "q") @@ ("R" :> "r") @@ ("S" :> "s") @@ ("T" :> "t") @@
    ("U" :> "u") @@ ("V" :> "v") @@ ("W" :> "w") @@ ("X" :> "x") @@ ("Y" :> "y") @@
    ("Z" :> "z")

\* String.prototype.toLowerCase
toLowerCase(s) ==
    [i \in 1..Len(s) |-> IF s[i] \in DOMAIN UpperToLower THEN UpperToLower[s[i]] ELSE s[i]]

\* String.prototype.includes: pat occurs in s as a contiguous substring
includes(s, pat) ==
    \E i \in 0..(Len(s) - Len(pat)) : \A j \in 1..Len(pat) : s[i + j] = pat[j]

\* a || b || ... over one keyword list
includesAny(s, pats) == \E k \in 1..Len(pats) : includes(s, pats[k])

kwHigh == <<"H","i","g","h">>

bioKeywords == <<
    <<"l","i","v","i","n","g">>, <<"m","o","s","s">>, <<"f","o","r","e","s","t">>,
    <<"a","l","g","a","e">>, <<"b","i","o">>, <<"t","i","m","b","e","r">>,
    <<"b","a","m","b","o","o">> >>

alloyKeywords == <<
    <<"c","a","r","b","o","n">>, <<"g","r","a","p","h","e","n","e">>,
    <<"t","i","t","a","n","i","u","m">>, <<"a","l","l","o","y">>, <<"f","i","b","e","r">> >>

smartKeywords == <<
    <<"s","m","a","r","t">>, <<"k","i","n","e","t","i","c">>, <<"m","e","m","o","r","y">>,
    <<"n","a","n","o","p","o","l","y","m","e","r">>,
    <<"s","e","l","f","-","h","e","a","l","i","n","g">> >>

concreteKeywords == <<
    <<"c","o","n","c","r","e","t","e">>, <<"u","h","p","c">>,
    <<"g","e","o","p","o","l","y","m","e","r">>, <<"c","e","r","a","m","i","c">> >>

diagridKeywords == <<
    <<"d","i","a","g","r","i","d">>, <<"e","x","o","s","k","e","l","e","t","o","n">>,
    <<"h","e","l","i","c","a","l">> >>

thickColumnKeywords == <<
    <<"t","u","b","e">>, <<"m","e","g","a">>, <<"b","u","t","t","r","e","s","s","e","d">> >>

outriggerKeywords == <<
    <<"o","u","t","r","i","g","g","e","r">>, <<"b","e","l","t">> >>

(***************************************************************************)
(* The analysis service's responses.  An absent field is a missing record  *)
(* field (optional chaining reads it as undefined).                        *)
(***************************************************************************)
txtHighSeismic == <<"H","i","g","h"," ","S","e","i","s","m","i","c">>
txtLow == <<"L","o","w">>
txtHighFlood == <<"H","i","g","h">>
txtSelfHealing ==
    <<"S","e","l","f","-","H","e","a","l","i","n","g"," ","G","r","a","p","h","e","n","e",
      " ","C","o","m","p","o","s","i","t","e">>
txtConcrete == <<"U","H","P","C"," ","C","o","n","c","r","e","t","e">>
txtDiagridOutrigger ==
    <<"D","i","a","g","r","i","d"," ","E","x","o","s","k","e","l","e","t","o","n"," ",
      "w","i","t","h"," ","O","u","t","r","i","g","g","e","r"," ","B","e","l","t","s">>
txtTube == <<"B","u","n","d","l","e","d"," ","T","u","b","e">>

\* useState(null) for result
NoResult == [null |-> TRUE]
\* the {} of data={result || {}}
EmptyObject == [empty |-> TRUE]

\* A high-hazard site: twisted, tapered cylinder.
ResultA ==
    [ safety_score |-> 82,
      profile |-> [seismic_zone |-> txtHighSeismic, flood_risk |-> txtHighFlood],
      recommendations |-> [structure |-> txtDiagridOutrigger, material |-> txtSelfHealing],
      geometry_params |-> [type |-> "cylinder", height |-> 300, taper |-> 60, twist |-> 90] ]

\* A low-hazard site that happens to score the same as ResultA.
ResultB ==
    [ safety_score |-> 82,
      profile |-> [seismic_zone |-> txtLow, flood_risk |-> txtLow],
      recommendations |-> [structure |-> txtTube, material |-> txtConcrete],
      geometry_params |-> [type |-> "box", height |-> 240, taper |-> 100, twist |-> 0] ]

\* A sparse response: no profile, no recommendations, no geometry_params.
ResultC == [ safety_score |-> 64 ]

Responses == {ResultA, ResultB, ResultC}

(***************************************************************************)
(* A wider family of responses, for the parameter-driven parts of the      *)
(* model (style resolution, topology flags, floor generation, archetype).  *)
(***************************************************************************)
\* recommendations.material as the service may word it
MaterialTexts == {
    <<"L","i","v","i","n","g"," ","M","o","s","s"," ","F","a","c","a","d","e">>,
    <<"B","i","o","-","C","o","n","c","r","e","t","e">>,
    <<"S","Y","M","B","I","O","T","I","C"," ","P","A","N","E","L","S">>,
    <<"K","i","n","e","t","i","c"," ","T","i","m","b","e","r"," ","A","l","l","o","y">>,
    <<"C","a","r","b","o","n"," ","F","i","b","e","r">>,
    <<"S","e","l","f","-","H","e","a","l","i","n","g"," ","G","r","a","p","h","e","n","e"," ","C","o","m","p","o","s","i","t","e">>,
    <<"T","I","T","A","N","I","U","M">>,
    <<"S","m","a","r","t"," ","C","o","n","c","r","e","t","e">>,
    <<"S","e","l","f","-","H","e","a","l","i","n","g"," ","P","o","l","y","m","e","r">>,
    <<"U","H","P","C"," ","C","o","n","c","r","e","t","e">>,
    <<"c","e","r","a","m","i","c"," ","t","i","l","e","s">>,
    <<"S","t","r","u","c","t","u","r","a","l"," ","S","t","e","e","l">>,
    <<>> }

\* recommendations.structure as the service may word it
StructureTexts == {
    <<"M","o","m","e","n","t"," ","F","r","a","m","e">>,
    <<"H","e","l","i","c","a","l"," ","D","i","a","g","r","i","d">>,
    <<"B","u","n","d","l","e","d"," ","T","u","b","e">>,
    <<"B","e","l","t"," ","T","r","u","s","s">>,
    <<"M","e","g","a"," ","E","x","o","s","k","e","l","e","t","o","n">>,
    <<"D","i","a","g","r","i","d"," ","E","x","o","s","k","e","l","e","t","o","n"," ","w","i","t","h"," ","O","u","t","r","i","g","g","e","r"," ","B","e","l","t","s">>,
    <<"B","u","t","t","r","e","s","s","e","d"," ","C","o","r","e"," ","w","i","t","h"," ","O","u","t","r","i","g","g","e","r","s">>,
    <<"D","I","A","G","R","I","D"," ","T","U","B","E"," ","W","I","T","H"," ","O","U","T","R","I","G","G","E","R">>,
    <<>> }

\* geometry_params.type: unset, the supported archetypes, an unsupported one
ArchetypeInputs ==
    {"undefined", "box", "tapered", "twisted", "cylinder", "hexagon", "triangle",
     "pyramid", "prism", "dome"}

\* the numeric fields of geometry_params: taper in hundredths, twist in degrees
NumericInputs == {
    [empty |-> TRUE],
    [taper |-> 100, twist |-> 0],
    [height |-> 300, taper |-> 60, twist |-> 90],
    [height |-> 450, taper |-> 60, twist |-> 90],
    [taper |-> 1, twist |-> 45],
    [taper |-> 99, twist |-> 360],
    [taper |-> 25, twist |-> 1],
    [taper |-> 0, twist |-> 30],
    [height |-> 120, taper |-> 150, twist |-> -45] }

\* responses that differ in the material text only (one without the field)
MaterialResponses ==
    { [safety_score |-> 75, recommendations |-> [material |-> m]] : m \in MaterialTexts }
    \cup { [safety_score |-> 75, recommendations |-> [none |-> TRUE]] }

\* responses that differ in the structure text only
StructureResponses ==
    { [safety_score |-> 75, recommendations |-> [structure |-> s]] : s \in StructureTexts }

\* responses that differ in geometry_params only
GeometryResponses ==
    { [safety_score |-> 75,
       geometry_params |-> IF ty = "undefined" THEN n ELSE [type |-> ty] @@ n] :
         ty \in ArchetypeInputs, n \in NumericInputs }

\* profile.seismic_zone and profile.flood_risk as the service may word them
SeismicTexts == {
    <<"H","i","g","h"," ","S","e","i","s","m","i","c">>,
    <<"Z","o","n","e"," ","4"," ","(","V","e","r","y"," ","H","i","g","h",")">>,
    <<"L","o","w">>,
    <<"M","o","d","e","r","a","t","e">>,
    <<"h","i","g","h"," ","r","i","s","k">> }

FloodTexts == {
    <<"H","i","g","h">>,
    <<"M","e","d","i","u","m","-","H","i","g","h">>,
    <<"L","o","w">>,
    <<"H","I","G","H">> }

\* responses that differ in the profile only: both texts, one of them, none
ProfileResponses ==
    { [safety_score |-> 75, profile |-> [seismic_zone |-> z, flood_risk |-> f]] :
         z \in SeismicTexts, f \in FloodTexts }
    \cup { [safety_score |-> 75, profile |-> [seismic_zone |-> z]] : z \in SeismicTexts }
    \cup { [safety_score |-> 75, profile |-> [flood_risk |-> f]] : f \in FloodTexts }
    \cup { [safety_score |-> 75, profile |-> [max_wind_speed |-> 45]] }

\* responses that pair every structure text with every archetype
OverlayResponses ==
    { [safety_score |-> 75,
       recommendations |-> [structure |-> st],
       geometry_params |-> [type |-> ty]] :
         st \in StructureTexts, ty \in ArchetypeInputs \ {"undefined"} }

\* the responses the per-floor layers are examined with
LayerResponses == Responses \cup MaterialResponses \cup OverlayResponses

ParamResponses ==
    Responses \cup MaterialResponses \cup StructureResponses \cup GeometryResponses
        \cup ProfileResponses

(***************************************************************************)
(* DetailedBuilding: parameter parsing.  params is the data prop.          *)
(***************************************************************************)
has(obj, field) == field \in DOMAIN obj

\* params?.geometry_params || {}
geoParams(params) ==
    IF has(params, "geometry_params") THEN params.geometry_params ELSE EmptyObject

\* geoParams.type, "undefined" when unset
geoType(params) ==
    IF has(geoParams(params), "type") THEN geoParams(params).type ELSE "undefined"

\* geoParams.height || 300
height(params) ==
    IF has(geoParams(params), "height") /\ geoParams(params).height # 0
    THEN geoParams(params).height ELSE 300

floorCount == 30
\* 1.2, in tenths
floorHeight == 12
\* the 2.5 of i * floorHeight * 2.5, in tenths
floorStacking == 25

\* geoParams.taper || 1.0, in hundredths
taperRatio(params) ==
    IF has(geoParams(params), "taper") /\ geoParams(params).taper # 0
    THEN geoParams(params).taper ELSE 100

\* (geoParams.twist || 0) * (Math.PI / 180): the factor pi/180 is the unit, so
\* twistTotal counts degrees
twistTotal(params) ==
    IF has(geoParams(params), "twist") THEN geoParams(params).twist ELSE 0

\* params?.profile?.<field>?.includes("High")
profileIsHigh(params, field) ==
    /\ has(params, "profile")
    /\ has(params.profile, field)
    /\ includes(params.profile[field], kwHigh)

\* mutant: a missing seismic_zone is read as the high tier
seismicPGAMissingIsHigh(params) ==
    IF /\ has(params, "profile")
       /\ has(params.profile, "seismic_zone")
       /\ ~includes(params.profile.seismic_zone, kwHigh)
    THEN 2 ELSE 5

\* 0.05 / 0.02, in hundredths
seismicPGA(params) == IF profileIsHigh(params, "seismic_zone") THEN 5 ELSE 2

floodRisk(params) == IF profileIsHigh(params, "flood_risk") THEN 15 ELSE 5

\* new THREE.Plane((-1,0,0), 0) when cutaway, [] otherwise
clipPlanes(isCut) ==
    IF ~isCut THEN <<>> ELSE << [normal |-> <<-1, 0, 0>>, constant |-> 0] >>

\* params?.recommendations?.<field>?.toLowerCase() || ""
recommendation(params, field) ==
    IF has(params, "recommendations") /\ has(params.recommendations, field)
    THEN toLowerCase(params.recommendations[field]) ELSE <<>>

materialRec(params) == recommendation(params, "material")
structureRec(params) == recommendation(params, "structure")

(***************************************************************************)
(* Style resolution.  roughness, metalness and emissiveIntensity in tenths.*)
(***************************************************************************)
\* mutant: the smart rule is tried before the composite-alloy rule
styleForSmartFirst(mat) ==
    IF includesAny(mat, bioKeywords) THEN
        [color |-> "#166534", roughness |-> 10, metalness |-> 1,
         name |-> "Eco-Resilient Bio-Skin", emissive |-> "#064e3b", emissiveIntensity |-> 2]
    ELSE IF includesAny(mat, smartKeywords) THEN
        [color |-> "#4f46e5", roughness |-> 1, metalness |-> 9,
         name |-> "Smart Nano-Structure", emissive |-> "#312e81", emissiveIntensity |-> 4]
    ELSE IF includesAny(mat, alloyKeywords) THEN
        [color |-> "#1e293b", roughness |-> 2, metalness |-> 8,
         name |-> "Advanced Composite Alloy", emissive |-> "#0f172a", emissiveIntensity |-> 1]
    ELSE IF includesAny(mat, concreteKeywords) THEN
        [color |-> "#94a3b8", roughness |-> 7, metalness |-> 2, name |-> "UHPC Geopolymer"]
    ELSE
        [color |-> "#64748b", roughness |-> 3, metalness |-> 7,
         name |-> "Resilient Hybrid Composite"]

\* mutant: the last matching rule wins, not the first
styleForLastMatch(mat) ==
    IF includesAny(mat, concreteKeywords) THEN
        [color |-> "#94a3b8", roughness |-> 7, metalness |-> 2, name |-> "UHPC Geopolymer"]
    ELSE IF includesAny(mat, smartKeywords) THEN
        [color |-> "#4f46e5", roughness |-> 1, metalness |-> 9,
         name |-> "Smart Nano-Structure", emissive |-> "#312e81", emissiveIntensity |-> 4]
    ELSE IF includesAny(mat, alloyKeywords) THEN
        [color |-> "#1e293b", roughness |-> 2, metalness |-> 8,
         name |-> "Advanced Composite Alloy", emissive |-> "#0f172a", emissiveIntensity |-> 1]
    ELSE IF includesAny(mat, bioKeywords) THEN
        [color |-> "#166534", roughness |-> 10, metalness |-> 1,
         name |-> "Eco-Resilient Bio-Skin", emissive |-> "#064e3b", emissiveIntensity |-> 2]
    ELSE
        [color |-> "#64748b", roughness |-> 3, metalness |-> 7,
         name |-> "Resilient Hybrid Composite"]

\* the body of the materialStyle useMemo: four rules in order, then the default
styleFor(mat) ==
    IF includesAny(mat, bioKeywords) THEN
        [color |-> "#166534", roughness |-> 10, metalness |-> 1,
         name |-> "Eco-Resilient Bio-Skin", emissive |-> "#064e3b", emissiveIntensity |-> 2]
    ELSE IF includesAny(mat, alloyKeywords) THEN
        [color |-> "#1e293b", roughness |-> 2, metalness |-> 8,
         name |-> "Advanced Composite Alloy", emissive |-> "#0f172a", emissiveIntensity |-> 1]
    ELSE IF includesAny(mat, smartKeywords) THEN
        [color |-> "#4f46e5", roughness |-> 1, metalness |-> 9,
         name |-> "Smart Nano-Structure", emissive |-> "#312e81", emissiveIntensity |-> 4]
    ELSE IF includesAny(mat, concreteKeywords) THEN
        [color |-> "#94a3b8", roughness |-> 7, metalness |-> 2, name |-> "UHPC Geopolymer"]
    ELSE
        [color |-> "#64748b", roughness |-> 3, metalness |-> 7,
         name |-> "Resilient Hybrid Composite"]

materialStyle(params) == styleFor(toLowerCase(materialRec(params)))

\* the flags, each a keyword test of structureRec
hasDiagrid(rec) == includesAny(rec, diagridKeywords)

\* mutant: the flags form a priority chain, thick columns only without a diagrid
hasThickColumnsUnlessDiagrid(rec) ==
    /\ ~includesAny(rec, diagridKeywords)
    /\ includesAny(rec, thickColumnKeywords)

hasThickColumns(rec) == includesAny(rec, thickColumnKeywords)
hasOutriggers(rec) == includesAny(rec, outriggerKeywords)

\* the three flags of one render
topology(params) ==
    LET rec == structureRec(params) IN
    [ hasDiagrid      |-> hasDiagrid(rec),
      hasThickColumns |-> hasThickColumns(rec),
      hasOutriggers   |-> hasOutriggers(rec) ]

(***************************************************************************)
(* Cross-section archetype.  Each per-floor layer lists one geometry       *)
(* element per archetype, each under its own condition on geoParams.type;  *)
(* a mesh none of whose conditions holds has no geometry element.  Lengths *)
(* in hundredths; radii are coefficients of floor.scale.                   *)
(***************************************************************************)
layerGeometry(type, r, rTri, h, side) ==
    IF type = "cylinder" THEN
        [kind |-> "cylinder", radiusTop |-> r, radiusBottom |-> r, height |-> h, segments |-> 32]
    ELSE IF type = "hexagon" THEN
        [kind |-> "cylinder", radiusTop |-> r, radiusBottom |-> r, height |-> h, segments |-> 6]
    ELSE IF type = "triangle" THEN
        [kind |-> "cylinder", radiusTop |-> rTri, radiusBottom |-> rTri, height |-> h, segments |-> 3]
    ELSE IF type = "pyramid" THEN
        [kind |-> "cylinder", radiusTop |-> 0, radiusBottom |-> rTri, height |-> h, segments |-> 4]
    ELSE IF type = "prism" THEN
        [kind |-> "cylinder", radiusTop |-> r, radiusBottom |-> r, height |-> h, segments |-> 3]
    ELSE IF type = "box" \/ type = "tapered" \/ type = "twisted" THEN
        [kind |-> "box", width |-> side, height |-> h, depth |-> side]
    ELSE
        [kind |-> "none"]

slabGeometry(type)       == layerGeometry(type, 500, 600, 50, 1000)
innerRingGeometry(type)  == layerGeometry(type, 420, 500, 15, 900)
insulationGeometry(type) == layerGeometry(type, 450, 530, 8, 950)
mechanicalGeometry(type) == layerGeometry(type, 480, 580, 80, 980)
facadeGeometry(type)     == layerGeometry(type, 490, 580, 200, 980)

\* colPositions: how many columns, where, and whether they follow floor.scale
columnLayout(type) ==
    IF type = "cylinder" THEN
        [count |-> 8, placement |-> "radial", reach |-> 450, offsetDeg |-> 0, scaled |-> TRUE]
    ELSE IF type = "hexagon" THEN
        [count |-> 6, placement |-> "radial", reach |-> 450, offsetDeg |-> 0, scaled |-> TRUE]
    ELSE IF type = "triangle" THEN
        [count |-> 3, placement |-> "radial", reach |-> 540, offsetDeg |-> 30, scaled |-> TRUE]
    ELSE IF type = "pyramid" THEN
        [count |-> 4, placement |-> "corners", reach |-> 450, offsetDeg |-> 0, scaled |-> TRUE]
    ELSE IF type = "prism" THEN
        [count |-> 3, placement |-> "radial", reach |-> 450, offsetDeg |-> 0, scaled |-> TRUE]
    ELSE
        [count |-> 4, placement |-> "corners", reach |-> 450, offsetDeg |-> 0, scaled |-> FALSE]

\* the geometry of every per-floor layer and the column layout of one render
profilesOf(type) ==
    [ slab       |-> slabGeometry(type),
      facade     |-> facadeGeometry(type),
      innerRing  |-> innerRingGeometry(type),
      insulation |-> insulationGeometry(type),
      mechanical |-> mechanicalGeometry(type),
      columns    |-> columnLayout(type) ]

(***************************************************************************)
(* Floor generation.  For floor id i (stored at index i + 1):              *)
(*   y        = i * floorHeight * 2.5              in hundredths           *)
(*   scale    = 1 - (1 - taperRatio) * i/floorCount  in 1/(100*floorCount) *)
(*   rotation = twistTotal * i/floorCount          in (pi/180)/floorCount  *)
(***************************************************************************)
\* mutant: the taper is applied upside down, the base floor at the taper ratio
GenerateFloorsNarrowBase(taper, twist) ==
    [k \in 1..floorCount |->
        LET i == k - 1 IN
        [ y             |-> i * floorHeight * floorStacking,
          scale         |-> taper * floorCount + (100 - taper) * i,
          rotation      |-> twist * i,
          id            |-> k - 1,
          isDiagridNode |-> ((k - 1) % 4 = 0) ] ]

\* mutant: the floors widen with height
GenerateFloorsWidening(taper, twist) ==
    [k \in 1..floorCount |->
        LET i == k - 1 IN
        [ y             |-> i * floorHeight * floorStacking,
          scale         |-> 100 * floorCount + (100 - taper) * i,
          rotation      |-> twist * i,
          id            |-> k - 1,
          isDiagridNode |-> ((k - 1) % 4 = 0) ] ]

\* mutant: the twist is eased in quadratically, not linearly
GenerateFloorsEasedTwist(taper, twist) ==
    [k \in 1..floorCount |->
        LET i == k - 1 IN
        [ y             |-> i * floorHeight * floorStacking,
          scale         |-> 100 * floorCount - (100 - taper) * i,
          rotation      |-> (twist * i * i) \div floorCount,
          id            |-> k - 1,
          isDiagridNode |-> ((k - 1) % 4 = 0) ] ]

\* mutant: loop index counted from 1, so that the top floor carries the full taper and twist
GenerateFloorsOneBased(taper, twist) ==
    [k \in 1..floorCount |->
        LET i == k IN
        [ y             |-> i * floorHeight * floorStacking,
          scale         |-> 100 * floorCount - (100 - taper) * i,
          rotation      |-> twist * i,
          id            |-> k - 1,
          isDiagridNode |-> ((k - 1) % 4 = 0) ] ]

GenerateFloors(taper, twist) ==
    [k \in 1..floorCount |->
        LET i == k - 1 IN
        [ y             |-> i * floorHeight * floorStacking,
          scale         |-> 100 * floorCount - (100 - taper) * i,
          rotation      |-> twist * i,
          id            |-> i,
          isDiagridNode |-> (i % 4 = 0) ] ]

\* the useMemo body, with the parsed parameters of this render
floorsOf(params) == GenerateFloors(taperRatio(params), twistTotal(params))

(***************************************************************************)
(* Fire pulse style: the emissive props of a floor slab's material.        *)
(***************************************************************************)
\* mutant: any active simulation, not only fire, turns the slab hazard red
fireEmissiveAnySim(simulationMode, style) ==
    IF simulationMode # "null" THEN "#ef4444"
    ELSE IF "emissive" \in DOMAIN style THEN style.emissive ELSE "#000000"

fireEmissive(simulationMode, style) ==
    IF simulationMode = "fire" THEN "#ef4444"
    ELSE IF has(style, "emissive") THEN style.emissive ELSE "#000000"

\* in tenths
fireIntensity(simulationMode, style) ==
    IF simulationMode = "fire" THEN 20
    ELSE IF has(style, "emissiveIntensity") THEN style.emissiveIntensity ELSE 0

\* <meshStandardMaterial emissive={fireEmissive} emissiveIntensity={fireIntensity}/>
slabMaterial(simulationMode, style) ==
    [ emissive          |-> fireEmissive(simulationMode, style),
      emissiveIntensity |-> fireIntensity(simulationMode, style) ]

(***************************************************************************)
(* DetailedBuilding: one render.  The memoised floors are recomputed when  *)
(* a dependency (taperRatio, twistTotal; floorCount is fixed) changed.     *)
(***************************************************************************)
useMemoFloors(prevFloors, prevParams, params) ==
    IF taperRatio(params) # taperRatio(prevParams) \/ twistTotal(params) # twistTotal(prevParams)
    THEN floorsOf(params) ELSE prevFloors

\* materialStyle is memoised on materialRec
useMemoStyle(prevStyle, prevParams, params) ==
    IF materialRec(params) # materialRec(prevParams)
    THEN materialStyle(params) ELSE prevStyle

(***************************************************************************)
(* The per-floor layers of one render: what floors.map draws on floor i    *)
(* besides the slab.  Lengths in hundredths, angles in degrees.            *)
(***************************************************************************)
innerIndigoKeywords == << <<"s","e","l","f","-","h","e","a","l","i","n","g">>, <<"g","r","a","p","h","e","n","e">>, <<"n","a","n","o","p","o","l","y","m","e","r">> >>
innerGreenKeywords == << <<"l","i","v","i","n","g">>, <<"b","i","o">>, <<"t","i","m","b","e","r">> >>
kwSteel == <<"s","t","e","e","l">>

\* layerColor, layerOpacity (tenths) and layerEmissive of the inner material layer
innerLayerMaterial(mat, style) ==
    [ color    |-> IF includesAny(mat, innerIndigoKeywords) THEN "#818cf8"
                   ELSE IF includesAny(mat, innerGreenKeywords) THEN "#22c55e"
                   ELSE style.color,
      opacity  |-> 5,
      emissive |-> IF has(style, "emissive") THEN style.emissive ELSE "undefined" ]

\* materialStyle.name.toUpperCase()
toUpperCaseName(name) ==
    CASE name = "Eco-Resilient Bio-Skin"     -> "ECO-RESILIENT BIO-SKIN"
      [] name = "Advanced Composite Alloy"   -> "ADVANCED COMPOSITE ALLOY"
      [] name = "Smart Nano-Structure"       -> "SMART NANO-STRUCTURE"
      [] name = "UHPC Geopolymer"            -> "UHPC GEOPOLYMER"
      [] name = "Resilient Hybrid Composite" -> "RESILIENT HYBRID COMPOSITE"

\* the four Html labels of the cutaway view
calloutLabels(structRec, style) ==
    << [label |-> "CORE RIBS",
        value |-> IF includes(structRec, kwSteel) THEN "STEEL" ELSE "REINFORCED CONCRETE"],
       [label |-> "MATERIAL CORE", value |-> toUpperCaseName(style.name)],
       [label |-> "ACTIVE INSULATION / DAMPING", value |-> ""],
       [label |-> "ADAPTIVE FACADE SKIN", value |-> ""] >>

\* params?.profile?.max_wind_speed || 30
windSpeed(params) ==
    IF /\ has(params, "profile")
       /\ has(params.profile, "max_wind_speed")
       /\ params.profile.max_wind_speed # 0
    THEN params.profile.max_wind_speed ELSE 30

\* window frames around a floor: denser glazing for higher wind speed
windowSegments(type, wind) ==
    LET baseSegments == IF type = "cylinder" THEN 12
                        ELSE IF type = "hexagon" THEN 6
                        ELSE IF type = "triangle" \/ type = "prism" THEN 3 ELSE 4
    IN  IF wind > 100 THEN baseSegments * 2
        ELSE IF wind > 70 THEN (baseSegments * 3) \div 2 ELSE baseSegments

\* mutant: the outriggers of a diagrid tower are drawn as mega columns
columnMeshesMegaOutrigger(count, topo) ==
    [k \in 1..count |->
        IF topo.hasDiagrid /\ ~topo.hasOutriggers THEN
            [ style |-> "diagrid", radius |-> 20, height |-> 500, segments |-> 4,
              color |-> "#0f172a", tilt |-> IF (k - 1) % 2 = 0 THEN 45 ELSE -45 ]
        ELSE IF topo.hasThickColumns \/ topo.hasOutriggers THEN
            [ style |-> "mega", radius |-> 60, height |-> 200, segments |-> 8,
              color |-> "#334155", tilt |-> 0 ]
        ELSE
            [ style |-> "standard", radius |-> 25, height |-> 200, segments |-> 8,
              color |-> "#334155", tilt |-> 0 ] ]

\* the structural member drawn at each of the colPositions (idx = k - 1)
columnMeshes(count, topo) ==
    [k \in 1..count |->
        IF topo.hasDiagrid THEN
            [ style |-> "diagrid", radius |-> 20, height |-> 500, segments |-> 4,
              color |-> "#0f172a", tilt |-> IF (k - 1) % 2 = 0 THEN 45 ELSE -45 ]
        ELSE IF topo.hasThickColumns THEN
            [ style |-> "mega", radius |-> 60, height |-> 200, segments |-> 8,
              color |-> "#334155", tilt |-> 0 ]
        ELSE
            [ style |-> "standard", radius |-> 25, height |-> 200, segments |-> 8,
              color |-> "#334155", tilt |-> 0 ] ]

\* the belt truss mesh; radius = 4.5 * floor.scale, so reach follows the scale
beltGeometry(type) ==
    IF type = "cylinder" \/ type = "hexagon" \/ type = "prism" THEN
        [ kind |-> "cylinder", reachTop |-> 450, reachBottom |-> 450, margin |-> 50,
          height |-> 80,
          segments |-> IF type = "cylinder" THEN 32 ELSE IF type = "hexagon" THEN 6 ELSE 3 ]
    ELSE IF type = "pyramid" THEN
        [ kind |-> "cylinder", reachTop |-> 0, reachBottom |-> 450, margin |-> 50,
          height |-> 80, segments |-> 4 ]
    ELSE
        [ kind |-> "box", width |-> 1020, height |-> 80, depth |-> 1020 ]

\* the distance of the four balconies from the axis
balconyRadius(type) ==
    IF type = "cylinder" \/ type = "prism" \/ type = "hexagon" THEN [reach |-> 520, scaled |-> TRUE]
    ELSE IF type = "triangle" \/ type = "pyramid" THEN [reach |-> 620, scaled |-> TRUE]
    ELSE [reach |-> 550, scaled |-> FALSE]

NoMesh == [kind |-> "none"]

\* mutant: the belt truss sits on every tenth floor above the ground floor
beltFloorAboveGround(i) == i % 10 = 0 /\ i > 0

\* i % 10 === 0: the floors that carry a belt truss when the tower has outriggers
beltFloor(i) == i % 10 = 0

\* mutant: the ground floor carries a mechanical block too
mechanicalFloorWithGround(i) == i % 15 = 0

\* i % 15 === 0 && i > 0
mechanicalFloor(i) == i % 15 = 0 /\ i > 0

\* mutant: the insulation ring sits on every floor of the cutaway view
insulationFloorEvery(i) == TRUE

\* i % 3 === 0
insulationFloor(i) == i % 3 = 0

\* the floor indices i of floors.map
FloorIds == 0..(floorCount - 1)

\* the floors selected by each per-floor condition on i
InsulationFloors == {i \in FloorIds : insulationFloor(i)}
CalloutFloors    == {i \in FloorIds : i = 15}
BalconyFloors    == {i \in FloorIds : i % 5 = 0 /\ i > 0}
MechanicalFloors == {i \in FloorIds : mechanicalFloor(i)}
WindowFloors     == {i \in FloorIds : i % 2 = 0}
BeltFloors       == {i \in FloorIds : beltFloor(i)}

\* everything floors.map draws besides slab and facade: for each layer the
\* floors i that draw it, and what is drawn there (the same on each of them)
layersOf(params, topo, style, isCut) ==
    LET type == geoType(params) IN
    [ ribs         |-> [ floors |-> IF isCut THEN FloorIds ELSE {},
                         angles |-> <<0, 90, 180, 270>> ],
      innerRing    |-> [ floors   |-> IF isCut THEN FloorIds ELSE {},
                         material |-> IF isCut
                                      THEN innerLayerMaterial(materialRec(params), style)
                                      ELSE NoMesh ],
      insulation   |-> [ floors |-> IF isCut THEN InsulationFloors ELSE {} ],
      callouts     |-> [ floors |-> IF isCut THEN CalloutFloors ELSE {},
                         labels |-> IF isCut THEN calloutLabels(structureRec(params), style)
                                    ELSE <<>> ],
      balconies    |-> [ floors |-> IF ~isCut THEN BalconyFloors ELSE {},
                         count  |-> 4,
                         radius |-> balconyRadius(type) ],
      mechanical   |-> [ floors |-> MechanicalFloors ],
      windowFrames |-> [ floors   |-> IF ~isCut THEN WindowFloors ELSE {},
                         segments |-> windowSegments(type, windSpeed(params)) ],
      columns      |-> [ floors |-> FloorIds,
                         meshes |-> columnMeshes(columnLayout(type).count, topo) ],
      belt         |-> [ floors   |-> IF topo.hasOutriggers THEN BeltFloors ELSE {},
                         geometry |-> beltGeometry(type) ] ]

\* the meshPhysicalMaterial of the facade ring; transmission and opacity in tenths
facadeMaterial(simulationMode, style, isCut) ==
    [ color             |-> IF simulationMode = "fire" THEN "#fca5a5" ELSE style.color,
      transmission      |-> IF isCut THEN 8 ELSE 4,
      opacity           |-> IF simulationMode = "fire" THEN 3 ELSE IF isCut THEN 2 ELSE 7,
      emissive          |-> fireEmissive(simulationMode, style),
      emissiveIntensity |-> fireIntensity(simulationMode, style) * 2 ]

\* the values the component body parses from the data prop in every render
parsedOf(params) ==
    [ height     |-> height(params),
      taperRatio |-> taperRatio(params),
      twistTotal |-> twistTotal(params),
      seismicPGA |-> seismicPGA(params),
      floodRisk  |-> floodRisk(params) ]

\* what a render commits, from the memoised values and the props
commit(params, floors, style, isCut, simulationMode) ==
    LET topo == topology(params) IN
    [ parsed        |-> parsedOf(params),
      floors        |-> floors,
      materialStyle |-> style,
      topology      |-> topo,
      profiles      |-> profilesOf(geoType(params)),
      layers        |-> layersOf(params, topo, style, isCut),
      slab          |-> slabMaterial(simulationMode, style),
      facade        |-> facadeMaterial(simulationMode, style, isCut),
      clipPlanes    |-> clipPlanes(isCut) ]

\* the first render of a fresh instance
mountBuilding(params, isCut, simulationMode) ==
    commit(params, floorsOf(params), materialStyle(params), isCut, simulationMode)

\* mutant: the floors are regenerated untwisted while the cutaway is shown
renderBuildingUntwistCutaway(prev, prevParams, params, isCut, simulationMode) ==
    commit(params,
           IF isCut THEN GenerateFloors(taperRatio(params), 0) ELSE floorsOf(params),
           useMemoStyle(prev.materialStyle, prevParams, params),
           isCut, simulationMode)

\* a re-render of a mounted instance with new props
renderBuilding(prev, prevParams, params, isCut, simulationMode) ==
    commit(params,
           useMemoFloors(prev.floors, prevParams, params),
           useMemoStyle(prev.materialStyle, prevParams, params),
           isCut, simulationMode)

(***************************************************************************)
(* The render clock.  state.clock.getElapsedTime() is a real number; the   *)
(* frame update reads it only through sin(5t), cos(4t) and sin(8t).  A     *)
(* clock reading is one of these sample times, with the three values in    *)
(* tenths (rounded): t = 3pi/2, pi/16, pi/6.  Between them both signs of   *)
(* every term occur.  Reading 0 is "not read yet".                         *)
(***************************************************************************)
ClockSamples == <<
    [sin5 |-> -10, cos4 |-> 10, sin8 |-> 0],
    [sin5 |-> 8,   cos4 |-> 7,  sin8 |-> 10],
    [sin5 |-> 5,   cos4 |-> -5, sin8 |-> -9] >>

\* Math.sin(time * 5) * seismicPGA * 2
swayX(t, params) == ClockSamples[t].sin5 * seismicPGA(params) * 2 * (RadUnits \div 1000)
\* Math.cos(time * 4) * seismicPGA * 2
swayZ(t, params) == ClockSamples[t].cos4 * seismicPGA(params) * 2 * (RadUnits \div 1000)
\* Math.sin(time * 8) * (seismicPGA / 2)
twist(t, params) == ClockSamples[t].sin8 * seismicPGA(params) * (RadUnits \div 2000)

\* the 0.002 of rotation.y += 0.002
idleRate == 2 * (RadUnits \div 1000)

\* THREE.MathUtils.lerp(x, y, t) = (1 - t) * x + t * y, with t = 1/n
lerp(x, y, n) == (x - (x \div n)) + (y \div n)

\* the interpolation factors 0.1, 0.02 and 0.05 as 1/n
restoreFactor == 10
riseFactor == 50
recedeFactor == 20

\* resting pose of the flood plane: position [0, -5, 0], opacity 0
restingHeight == (-5) * WaterUnits
\* the 0.8 of the flood opacity target
floodOpacity == 8 * (OpacityUnits \div 10)

Null == "null"

\* mutant: the model is snapped upright as soon as quake is not the active state
rotationSnapUpright(rotation, simulationMode, isCut, params, t) ==
    LET base == IF simulationMode = Null /\ ~isCut
                THEN rotation.y + idleRate ELSE rotation.y
    IN  IF simulationMode = "quake"
        THEN [ z |-> swayX(t, params),
               x |-> swayZ(t, params),
               y |-> IF ~isCut THEN base + twist(t, params) ELSE base ]
        ELSE [ z |-> 0, x |-> 0, y |-> base ]

\* mutant: the idle rotation ignores the cutaway
rotationIdleInCutaway(rotation, simulationMode, isCut, params, t) ==
    LET base == IF simulationMode = Null
                THEN rotation.y + idleRate ELSE rotation.y
    IN  IF simulationMode = "quake"
        THEN [ z |-> swayX(t, params),
               x |-> swayZ(t, params),
               y |-> IF ~isCut THEN base + twist(t, params) ELSE base ]
        ELSE [ z |-> lerp(rotation.z, 0, restoreFactor),
               x |-> lerp(rotation.x, 0, restoreFactor),
               y |-> base ]

\* mutant: the quake torsion is applied whatever the cutaway
rotationTwistAlways(rotation, simulationMode, isCut, params, t) ==
    LET base == IF simulationMode = Null /\ ~isCut
                THEN rotation.y + idleRate ELSE rotation.y
    IN  IF simulationMode = "quake"
        THEN [ z |-> swayX(t, params),
               x |-> swayZ(t, params),
               y |-> base + twist(t, params) ]
        ELSE [ z |-> lerp(rotation.z, 0, restoreFactor),
               x |-> lerp(rotation.x, 0, restoreFactor),
               y |-> base ]

\* mutant: the sway is left as the last quake frame set it
rotationHoldSway(rotation, simulationMode, isCut, params, t) ==
    LET base == IF simulationMode = Null /\ ~isCut
                THEN rotation.y + idleRate ELSE rotation.y
    IN  IF simulationMode = "quake"
        THEN [ z |-> swayX(t, params),
               x |-> swayZ(t, params),
               y |-> IF ~isCut THEN base + twist(t, params) ELSE base ]
        ELSE [ z |-> rotation.z, x |-> rotation.x, y |-> base ]

\* useFrame, steps 1 and 2: groupRef.current.rotation
rotationAfterFrame(rotation, simulationMode, isCut, params, t) ==
    LET base == IF simulationMode = Null /\ ~isCut
                THEN rotation.y + idleRate ELSE rotation.y
    IN  IF simulationMode = "quake"
        THEN [ z |-> swayX(t, params),
               x |-> swayZ(t, params),
               y |-> IF ~isCut THEN base + twist(t, params) ELSE base ]
        ELSE [ z |-> lerp(rotation.z, 0, restoreFactor),
               x |-> lerp(rotation.x, 0, restoreFactor),
               y |-> base ]

\* mutant: the water rises toward floodRisk itself, not floodRisk / 2
waterRiseToFullLevel(water, simulationMode, params) ==
    IF simulationMode = "flood"
    THEN [ y       |-> lerp(water.y, floodRisk(params) * WaterUnits, riseFactor),
           opacity |-> lerp(water.opacity, floodOpacity, riseFactor) ]
    ELSE [ y       |-> lerp(water.y, restingHeight, recedeFactor),
           opacity |-> lerp(water.opacity, 0, recedeFactor) ]

\* mutant: the water recedes at the rise rate
waterRecedeSlow(water, simulationMode, params) ==
    IF simulationMode = "flood"
    THEN [ y       |-> lerp(water.y, floodRisk(params) * (WaterUnits \div 2), riseFactor),
           opacity |-> lerp(water.opacity, floodOpacity, riseFactor) ]
    ELSE [ y       |-> lerp(water.y, restingHeight, riseFactor),
           opacity |-> lerp(water.opacity, 0, riseFactor) ]

\* useFrame, step 3: waterRef.current
waterAfterFrame(water, simulationMode, params) ==
    IF simulationMode = "flood"
    THEN [ y       |-> lerp(water.y, floodRisk(params) * (WaterUnits \div 2), riseFactor),
           opacity |-> lerp(water.opacity, floodOpacity, riseFactor) ]
    ELSE [ y       |-> lerp(water.y, restingHeight, recedeFactor),
           opacity |-> lerp(water.opacity, 0, recedeFactor) ]

(***************************************************************************)
(* Dashboard and Viewer3D.                                                 *)
(***************************************************************************)
\* mutant: a button pressed in a non-idle state always deselects first
toggleViaIdle(current, m) == IF current = Null THEN m ELSE Null

\* mutant: re-selection stores the string 'idle' instead of null
toggleIdleString(current, m) == IF current = m THEN "idle" ELSE m

\* onClick={() => setActiveSim(activeSim === m ? null : m)}
toggle(current, m) == IF current = m THEN Null ELSE m

\* key={result ? result.safety_score : 'init'}, as React compares keys: as strings
viewerKey(res) == IF res = NoResult THEN "init" ELSE ToString(res.safety_score)

\* data={result || {}}
dataOf(res) == IF res = NoResult THEN EmptyObject ELSE res

\* mutant: no null guard; canvas.toDataURL on a missing canvas is a TypeError
captureSnapshotUnguarded(canvas) == IF canvas THEN "data:image/png" ELSE "TypeError"

\* canvas ? canvas.toDataURL('image/png') : null
captureSnapshot(canvas) == IF canvas THEN "data:image/png" ELSE Null

Buttons == {"quake", "flood", "fire"}

VARIABLES
    page,        \* the route shown: "home" (Home) or "design" (Dashboard)
    loading,     \* Dashboard.loading
    result,      \* Dashboard.result
    activeSim,   \* Dashboard.activeSim
    isCutaway,   \* Viewer3D.isCutaway
    rotation,    \* groupRef.current.rotation
    water,       \* waterRef.current: position.y and material.opacity
    scene,       \* what the last render of DetailedBuilding committed
    frames,      \* frames the current canvas has completed
    time,        \* the clock reading of the last seismic frame (index in ClockSamples)
    returned     \* what the last step returned to its caller, "none" if nothing

vars == <<page, loading, result, activeSim, isCutaway, rotation, water, scene, frames,
          time, returned>>

\* document.querySelector('canvas'): the Canvas of Viewer3D is the page's only canvas
canvasExists == page = "design"

\* a freshly mounted Viewer3D: isCutaway false, model upright, plane at rest
FreshViewer(res, sim) ==
    /\ isCutaway' = FALSE
    /\ rotation' = [x |-> 0, y |-> 0, z |-> 0]
    /\ water' = [y |-> restingHeight, opacity |-> 0]
    /\ scene' = mountBuilding(dataOf(res), FALSE, sim)
    /\ frames' = 0
    /\ time' = 0

\* a freshly constructed Dashboard
FreshDashboard ==
    /\ loading' = FALSE
    /\ result' = NoResult
    /\ activeSim' = Null
    /\ FreshViewer(NoResult, Null)

Init ==
    /\ page = "home"
    /\ loading = FALSE
    /\ result = NoResult
    /\ activeSim = Null
    /\ isCutaway = FALSE
    /\ rotation = [x |-> 0, y |-> 0, z |-> 0]
    /\ water = [y |-> restingHeight, opacity |-> 0]
    /\ scene = mountBuilding(EmptyObject, FALSE, Null)
    /\ frames = 0
    /\ time = 0
    /\ returned = "none"

\* Home: <Link to="/design">Start Design Simulation</Link> mounts the Dashboard
StartDesign ==
    /\ page = "home"
    /\ page' = "design"
    /\ FreshDashboard
    /\ returned' = "none"

\* Layout: the brand link to "/" unmounts the Dashboard; its state is discarded
NavigateHome ==
    /\ page = "design"
    /\ page' = "home"
    /\ FreshDashboard
    /\ returned' = "none"

\* handleAnalyze up to the await: setLoading(true); setActiveSim(null)
handleAnalyze ==
    /\ page = "design"
    /\ ~loading
    /\ loading' = TRUE
    /\ activeSim' = Null
    /\ scene' = renderBuilding(scene, dataOf(result), dataOf(result), isCutaway, Null)
    /\ returned' = "none"
    /\ UNCHANGED <<page, result, isCutaway, rotation, water, frames, time>>

\* mutant: the completed analysis deselects the active simulation
AnalyzeResponseResetsSim(data) ==
    /\ page = "design"
    /\ loading
    /\ loading' = FALSE
    /\ result' = data
    /\ activeSim' = Null
    /\ IF viewerKey(data) # viewerKey(result)
       THEN FreshViewer(data, Null)
       ELSE /\ scene' = renderBuilding(scene, dataOf(result), dataOf(data), isCutaway, Null)
            /\ UNCHANGED <<isCutaway, rotation, water, frames, time>>
    /\ returned' = "none"
    /\ UNCHANGED page

\* handleAnalyze after the await: setResult(data); finally setLoading(false).
\* Viewer3D is re-mounted when its key changes and re-rendered otherwise.
AnalyzeResponse(data) ==
    /\ page = "design"
    /\ loading
    /\ loading' = FALSE
    /\ result' = data
    /\ IF viewerKey(data) # viewerKey(result)
       THEN FreshViewer(data, activeSim)
       ELSE /\ scene' = renderBuilding(scene, dataOf(result), dataOf(data), isCutaway, activeSim)
            /\ UNCHANGED <<isCutaway, rotation, water, frames, time>>
    /\ returned' = "none"
    /\ UNCHANGED <<page, activeSim>>

\* handleAnalyze when fetch or response.json() throws: catch, finally setLoading(false)
AnalyzeError ==
    /\ page = "design"
    /\ loading
    /\ loading' = FALSE
    /\ returned' = "none"
    /\ UNCHANGED <<page, result, activeSim, isCutaway, rotation, water, scene, frames, time>>

\* one of the three stress-test buttons, rendered only when result is set
ToggleSim(m) ==
    /\ page = "design"
    /\ result # NoResult
    /\ activeSim' = toggle(activeSim, m)
    /\ scene' = renderBuilding(scene, dataOf(result), dataOf(result), isCutaway, activeSim')
    /\ returned' = "none"
    /\ UNCHANGED <<page, loading, result, isCutaway, rotation, water, frames, time>>

\* mutant: opening or closing the cutaway also stops the simulation
ToggleCutawayResetsSim ==
    /\ page = "design"
    /\ isCutaway' = ~isCutaway
    /\ activeSim' = Null
    /\ scene' = renderBuilding(scene, dataOf(result), dataOf(result), isCutaway', Null)
    /\ returned' = "none"
    /\ UNCHANGED <<page, loading, result, rotation, water, frames, time>>

\* onClick={() => setIsCutaway(!isCutaway)}
ToggleCutaway ==
    /\ page = "design"
    /\ isCutaway' = ~isCutaway
    /\ scene' = renderBuilding(scene, dataOf(result), dataOf(result), isCutaway', activeSim)
    /\ returned' = "none"
    /\ UNCHANGED <<page, loading, result, activeSim, rotation, water, frames, time>>

\* useFrame: one rendered frame of the mounted canvas
Frame(t) ==
    /\ page = "design"
    /\ frames < MaxFrames
    /\ activeSim # "quake" => t = 1    \* the clock is read in seismic frames only
    /\ time' = IF activeSim = "quake" THEN t ELSE time
    /\ rotation' = rotationAfterFrame(rotation, activeSim, isCutaway, dataOf(result), t)
    /\ water' = waterAfterFrame(water, activeSim, dataOf(result))
    /\ frames' = frames + 1
    /\ returned' = "none"
    /\ UNCHANGED <<page, loading, result, activeSim, isCutaway, scene>>

\* generatePDF: returns early without a result; otherwise
\* imgData = viewerRef.current ? viewerRef.current.captureSnapshot() : null
generatePDF ==
    /\ page = "design"
    /\ result # NoResult
    /\ returned' = captureSnapshot(canvasExists)
    /\ UNCHANGED <<page, loading, result, activeSim, isCutaway, rotation, water, scene,
                   frames, time>>

\* the snapshot handle invoked by whoever holds it, whether or not a Viewer3D is mounted
CaptureSnapshot ==
    /\ returned' = captureSnapshot(canvasExists)
    /\ UNCHANGED <<page, loading, result, activeSim, isCutaway, rotation, water, scene,
                   frames, time>>

Next ==
    \/ StartDesign
    \/ NavigateHome
    \/ handleAnalyze
    \/ \E data \in Responses : AnalyzeResponse(data)
    \/ AnalyzeError
    \/ \E m \in Buttons : ToggleSim(m)
    \/ ToggleCutaway
    \/ \E t \in DOMAIN ClockSamples : Frame(t)

Spec == Init /\ [][Next]_vars

\* The same program with the report generator and the snapshot handle in use.
SnapshotNext ==
    \/ Next
    \/ generatePDF
    \/ CaptureSnapshot

SnapshotSpec == Init /\ [][SnapshotNext]_vars

\* The Dashboard fed with the wider family of responses, one analysis after another.
ParamNext ==
    \/ StartDesign
    \/ handleAnalyze
    \/ \E data \in ParamResponses : AnalyzeResponse(data)

ParamSpec == Init /\ [][ParamNext]_vars

\* The Dashboard with its toggles and the layer responses, no frame rendered.
LayerNext ==
    \/ StartDesign
    \/ handleAnalyze
    \/ \E data \in LayerResponses : AnalyzeResponse(data)
    \/ \E m \in Buttons : ToggleSim(m)
    \/ ToggleCutaway

LayerSpec == Init /\ [][LayerNext]_vars

(***************************************************************************)
(* The long run.  A canvas keeps rendering far beyond MaxFrames frames.    *)
(* RunFrame is the same frame update followed for MaxRun frames: the clock *)
(* moves on from reading to reading, and an interpolation that no longer   *)
(* divides is rounded to the unit of its quantity (a JavaScript number is  *)
(* rounded too, to 53 bits).  The user acts (toggles, asks for an          *)
(* analysis, gets the response) while the canvas is young, up to frame     *)
(* SetupFrames, and once more when the run has reached frame ActiveRun.    *)
(***************************************************************************)
\* the last frame of a young canvas at which the user acts
SetupFrames == 1
\* the frame of a long run at which the user acts again
ActiveRun == 50
\* frames of one canvas the long run follows
MaxRun == 190

\* the clock reading of frame n of the long run
clockAt(n) == (n % Len(ClockSamples)) + 1

\* useFrame, followed over the long run
RunFrame ==
    /\ page = "design"
    /\ frames < MaxRun
    /\ time' = IF activeSim = "quake" THEN clockAt(frames) ELSE time
    /\ rotation' = rotationAfterFrame(rotation, activeSim, isCutaway, dataOf(result),
                                      clockAt(frames))
    /\ water' = waterAfterFrame(water, activeSim, dataOf(result))
    /\ frames' = frames + 1
    /\ returned' = "none"
    /\ UNCHANGED <<page, loading, result, activeSim, isCutaway, scene>>

\* the frames at which the user acts in the long run
userActs == frames <= SetupFrames \/ frames = ActiveRun

\* the user's actions, at the frames of the long run at which the user acts
RunAnalyze == userActs /\ handleAnalyze
RunResponse(data) == userActs /\ AnalyzeResponse(data)
RunToggleSim(m) == userActs /\ ToggleSim(m)
RunToggleCutaway == userActs /\ ToggleCutaway

LongRunNext ==
    \/ StartDesign
    \/ RunAnalyze
    \/ \E data \in Responses : RunResponse(data)
    \/ \E m \in Buttons : RunToggleSim(m)
    \/ RunToggleCutaway
    \/ RunFrame

\* requestAnimationFrame: a mounted canvas is never left without its next frame
LongRunSpec == Init /\ [][LongRunNext]_vars /\ WF_vars(RunFrame)

\* every interpolation of the remaining frames divides exactly
LerpExact ==
    frames <= MaxFrames =>
        /\ rotation.x % Pow(10, MaxFrames - frames) = 0
        /\ rotation.z % Pow(10, MaxFrames - frames) = 0
        /\ water.y % Pow(100, MaxFrames - frames) = 0
        /\ water.opacity % Pow(100, MaxFrames - frames) = 0

(***************************************************************************)
(* Properties.                                                             *)
(***************************************************************************)
SimulationStates == {Null, "quake", "flood", "fire"}

FrameStep == \E t \in DOMAIN ClockSamples : Frame(t)
ToggleStep == \E m \in Buttons : ToggleSim(m)

\* the flood target of the mounted model: floodRisk / 2
floodTarget == floodRisk(dataOf(result)) * (WaterUnits \div 2)

\* C1: pressing button m yields idle when the active state is m and yields m
\* otherwise, in that one step; a switch between two non-idle states never
\* shows idle.
C1_ToggleSemantics ==
    [][\A m \in Buttons :
          ToggleSim(m) =>
             /\ (activeSim = m => activeSim' = Null)
             /\ (activeSim # m => activeSim' = m)
             /\ (activeSim # Null /\ activeSim # m => activeSim' # Null)]_vars

\* a non-idle state reached while the model still carries the sway of an
\* earlier quake: the user switched quake -> flood
C1_Witness ==
    /\ activeSim = "flood"
    /\ rotation.z # 0
    /\ frames = 1

\* C2: SimulationState always holds one value of {idle (null), quake, flood,
\* fire}; it is idle initially and for as long as no result has arrived.
C2_OneStateActive ==
    /\ activeSim \in SimulationStates
    /\ (page = "home" \/ result = NoResult => activeSim = Null)

C2_Witness ==
    /\ activeSim = "quake"
    /\ isCutaway
    /\ frames = MaxFrames
    /\ result = ResultC

\* C3: whenever a new result replaces the current one, the model instance is
\* recreated: upright (roll, pitch, yaw 0), flood plane at rest (-5, opacity 0).
C3_RecreatedOnNewResult ==
    [][result' # result /\ result' # NoResult =>
          /\ rotation' = [x |-> 0, y |-> 0, z |-> 0]
          /\ water' = [y |-> (-5) * WaterUnits, opacity |-> 0]]_vars

\* C4: a frame while the state is not quake moves roll and pitch to 0.9 times
\* their value: magnitude never grows, sign never flips, non-zero stays non-zero.
C4_DecayStep(old, new) ==
    /\ 10 * new = 9 * old
    /\ Abs(new) <= Abs(old)
    /\ (old > 0 => new > 0)
    /\ (old < 0 => new < 0)

C4_SwayDecays ==
    [][FrameStep /\ activeSim # "quake" =>
          /\ C4_DecayStep(rotation.z, rotation'.z)
          /\ C4_DecayStep(rotation.x, rotation'.x)]_vars

\* the first frame after quake -> flood: roll and pitch are 0.9 of the last sway
\* (clock sample 3: roll positive, pitch negative)
C4_Witness ==
    /\ activeSim = "flood"
    /\ frames = 2
    /\ rotation.z > 0
    /\ rotation.x < 0
    /\ 10 * rotation.z = 9 * swayX(3, dataOf(result))
    /\ 10 * rotation.x = 9 * swayZ(3, dataOf(result))

C6_FloodRecede ==
    [][FrameStep /\ activeSim # "flood" =>
          /\ water'.y - water.y = (((-5) * WaterUnits) \div 20) - (water.y \div 20)
          /\ water.y % 20 = 0
          /\ water'.y <= water.y
          /\ water'.y >= (-5) * WaterUnits
          /\ 20 * water'.opacity = 19 * water.opacity
          /\ water'.opacity <= water.opacity
          /\ water'.opacity >= 0
          /\ recedeFactor < riseFactor]_vars

\* a flood frame followed by a receding frame: the plane is between rest and
\* where the flood frame left it
C6_Witness ==
    /\ activeSim # "flood"
    /\ frames = 2
    /\ water.y > (-5) * WaterUnits
    /\ water.y = lerp(lerp((-5) * WaterUnits, floodTarget, 50), (-5) * WaterUnits, 20)
    /\ water.opacity > 0

\* C7: the slab's emissive colour and intensity are, in every state, those of
\* the current SimulationState and the resolved style alone: hazard red at 2.0
\* exactly when the state is fire, else the style's emissive or black / 0.
C7_FireMemoryless ==
    LET style == materialStyle(dataOf(result)) IN
    /\ scene.slab.emissive =
          IF activeSim = "fire" THEN "#ef4444"
          ELSE IF "emissive" \in DOMAIN style THEN style.emissive ELSE "#000000"
    /\ scene.slab.emissiveIntensity =
          IF activeSim = "fire" THEN 20
          ELSE IF "emissiveIntensity" \in DOMAIN style THEN style.emissiveIntensity ELSE 0
    /\ (scene.slab.emissive = "#ef4444" <=> activeSim = "fire")
    /\ (scene.slab.emissiveIntensity = 20 <=> activeSim = "fire")

\* fire selected on a model whose style has no emissive of its own, before any
\* frame has run: the slab already shows the final hazard value
C7_Witness ==
    /\ activeSim = "fire"
    /\ frames = 0
    /\ result = ResultB
    /\ scene.slab = [emissive |-> "#ef4444", emissiveIntensity |-> 20]

\* C8: a frame adds the idle rate 0.002 to the yaw when the state is idle and
\* cutaway is off; it leaves the yaw alone when cutaway is on or the state is
\* flood or fire; a quake frame with cutaway off adds the torsion term only.
C8_IdleRotation ==
    [][FrameStep =>
          LET dy == rotation'.y - rotation.y IN
          /\ (activeSim = Null /\ ~isCutaway => dy = 2 * (RadUnits \div 1000))
          /\ (isCutaway \/ activeSim \in {"flood", "fire"} => dy = 0)
          /\ (activeSim = "quake" /\ ~isCutaway =>
                dy = ClockSamples[time'].sin8 * seismicPGA(dataOf(result)) * (RadUnits \div 2000))
          /\ (dy = 2 * (RadUnits \div 1000) <=> activeSim = Null /\ ~isCutaway)]_vars

\* one idle frame with cutaway off, then frames with cutaway on
C8_Witness ==
    /\ activeSim = Null
    /\ isCutaway
    /\ frames = MaxFrames
    /\ rotation.y = 2 * (RadUnits \div 1000)

\* C9: the floor descriptors change only with geometry_params: a step that
\* leaves geometry_params as it was (every simulation toggle, cutaway toggle
\* and frame among them) changes no descriptor value.
C9_FloorsFollowGeometry ==
    [][scene'.floors # scene.floors =>
          /\ ~(ToggleStep \/ ToggleCutaway \/ FrameStep)
          /\ geoParams(dataOf(result')) # geoParams(dataOf(result))]_vars

\* the twisted, tapered tower after a switch fire -> flood in cutaway mode
C9_Witness ==
    /\ result = ResultA
    /\ isCutaway
    /\ activeSim = "flood"
    /\ frames = MaxFrames
    /\ rotation.z # 0
    /\ scene.floors[30].rotation = 90 * 29
    /\ scene.floors[30].scale = 100 * 30 - 40 * 29

\* C10 as claimed: a snapshot taken before the canvas has completed a frame
\* returns null; one taken once a canvas exists returns an image string.
C10_NullBeforeFirstFrame ==
    returned # "none" =>
        /\ (frames = 0 \/ page # "design" => returned = Null)
        /\ (page = "design" /\ frames > 0 => returned = "data:image/png")

\* C10 amended: a snapshot returns null exactly when the document holds no
\* canvas, and an image string whenever one exists, frames rendered or not.
C10_NullWithoutCanvas ==
    returned # "none" =>
        /\ (page # "design" => returned = Null)
        /\ (page = "design" => returned = "data:image/png")

\* a snapshot of a canvas that has not completed a frame
C10_Witness ==
    /\ page = "design"
    /\ frames = 0
    /\ result # NoResult
    /\ returned = "data:image/png"

\* a snapshot asked for while no Viewer3D is mounted
C10_WitnessNoCanvas ==
    /\ page = "home"
    /\ returned = Null

\* the material text of the current result is txt, as the service worded it
materialTextIs(txt) ==
    /\ result # NoResult
    /\ has(result, "recommendations")
    /\ has(result.recommendations, "material")
    /\ result.recommendations.material = txt

\* C11 as claimed: the material text "Self-Healing Graphene Composite" resolves
\* to category 3: "Smart Nano-Structure", indigo, metalness 0.9.
C11_SelfHealingGrapheneIsSmart ==
    materialTextIs(txtSelfHealing) =>
        /\ scene.materialStyle.name = "Smart Nano-Structure"
        /\ scene.materialStyle.color = "#4f46e5"
        /\ scene.materialStyle.metalness = 9

\* C11 amended: that text contains "graphene", a keyword of rule 2, which is
\* tried before rule 3: it resolves to category 2, "Advanced Composite Alloy",
\* dark slate, metalness 0.8; a self-healing material that names no rule-1 or
\* rule-2 keyword resolves to category 3.
C11_SelfHealingGrapheneIsAlloy ==
    /\ materialTextIs(txtSelfHealing) =>
          /\ scene.materialStyle.name = "Advanced Composite Alloy"
          /\ scene.materialStyle.color = "#1e293b"
          /\ scene.materialStyle.metalness = 8
    /\ materialTextIs(<<"S","e","l","f","-","H","e","a","l","i","n","g"," ","P","o","l","y","m","e","r">>) =>
          /\ scene.materialStyle.name = "Smart Nano-Structure"
          /\ scene.materialStyle.color = "#4f46e5"
          /\ scene.materialStyle.metalness = 9

\* the model of a "Self-Healing Graphene Composite" response is on screen
C11_Witness ==
    /\ page = "design"
    /\ ~loading
    /\ materialTextIs(txtSelfHealing)
    /\ scene.materialStyle.name = "Advanced Composite Alloy"

\* the rule list as the specification words it: keyword sets in priority order
\* and the display name of each rule's style, the default last
MaterialRules == <<bioKeywords, alloyKeywords, smartKeywords, concreteKeywords>>
MaterialCategories == <<
    [name |-> "Eco-Resilient Bio-Skin",    color |-> "#166534", emissive |-> TRUE],
    [name |-> "Advanced Composite Alloy",  color |-> "#1e293b", emissive |-> TRUE],
    [name |-> "Smart Nano-Structure",      color |-> "#4f46e5", emissive |-> TRUE],
    [name |-> "UHPC Geopolymer",           color |-> "#94a3b8", emissive |-> FALSE],
    [name |-> "Resilient Hybrid Composite", color |-> "#64748b", emissive |-> FALSE] >>

\* rule k matches txt: a keyword of rule k occurs in txt, letter case ignored
ruleMatches(k, txt) ==
    \E w \in 1..Len(MaterialRules[k]) :
        LET kw == MaterialRules[k][w] IN
        \E i \in 0..(Len(txt) - Len(kw)) :
            \A j \in 1..Len(kw) : toLowerCase(<<txt[i + j]>>) = <<kw[j]>>

\* the material text of the current result, empty when the result or the field is missing
materialTextOrEmpty ==
    IF /\ result # NoResult
       /\ has(result, "recommendations")
       /\ has(result.recommendations, "material")
    THEN result.recommendations.material ELSE <<>>

\* C12: for every material text (any case, empty, missing) the resolved style
\* is a single well-formed style: that of the first rule, in the order bio/eco,
\* composite alloy, smart nano, concrete, with a keyword occurring in the text
\* case-insensitively, and the default style when no rule matches.
C12_FirstMatchWins ==
    LET txt == materialTextOrEmpty
        matching == {k \in 1..4 : ruleMatches(k, txt)}
        first == IF matching = {} THEN 5
                 ELSE CHOOSE k \in matching : \A j \in matching : k <= j
        style == scene.materialStyle
    IN  /\ {"color", "roughness", "metalness", "name"} \subseteq DOMAIN style
        /\ style.name = MaterialCategories[first].name
        /\ style.color = MaterialCategories[first].color
        /\ ("emissive" \in DOMAIN style) = MaterialCategories[first].emissive
        /\ Cardinality({k \in 1..5 : MaterialCategories[k].name = style.name}) = 1

\* a text matching rules 1, 2 and 3 at once ("Kinetic Timber Alloy") shows the
\* style of rule 1
C12_Witness ==
    /\ materialTextIs(<<"K","i","n","e","t","i","c"," ","T","i","m","b","e","r"," ","A","l","l","o","y">>)
    /\ Cardinality({k \in 1..4 : ruleMatches(k, materialTextOrEmpty)}) = 3
    /\ scene.materialStyle.name = "Eco-Resilient Bio-Skin"

\* txt mentions one of the words, letter case ignored
mentions(txt, words) ==
    \E w \in 1..Len(words) :
        \E i \in 0..(Len(txt) - Len(words[w])) :
            \A j \in 1..Len(words[w]) : toLowerCase(<<txt[i + j]>>) = <<words[w][j]>>

\* the structure text of a response, empty when the response or the field is missing
structureTextOf(res) ==
    IF /\ res # NoResult
       /\ has(res, "recommendations")
       /\ has(res.recommendations, "structure")
    THEN res.recommendations.structure ELSE <<>>

\* the flags a rendered model of response res would show
flagsOf(res) == topology(dataOf(res))

\* C13: each topology flag is its own keyword test of the structure text,
\* whatever the other two are; among the structure texts every one of the 8
\* flag combinations occurs; "Diagrid Exoskeleton with Outrigger Belts" gives
\* hasDiagrid, hasOutriggers and not hasThickColumns.
C13_FlagsIndependent ==
    LET txt == structureTextOf(result) IN
    /\ scene.topology.hasDiagrid =
          mentions(txt, << <<"d","i","a","g","r","i","d">>,
                           <<"e","x","o","s","k","e","l","e","t","o","n">>,
                           <<"h","e","l","i","c","a","l">> >>)
    /\ scene.topology.hasThickColumns =
          mentions(txt, << <<"t","u","b","e">>, <<"m","e","g","a">>,
                           <<"b","u","t","t","r","e","s","s","e","d">> >>)
    /\ scene.topology.hasOutriggers =
          mentions(txt, << <<"o","u","t","r","i","g","g","e","r">>, <<"b","e","l","t">> >>)
    /\ \A d, t, o \in BOOLEAN :
          \E r \in StructureResponses :
              flagsOf(r) = [hasDiagrid |-> d, hasThickColumns |-> t, hasOutriggers |-> o]
    /\ txt = txtDiagridOutrigger =>
          scene.topology = [hasDiagrid |-> TRUE, hasThickColumns |-> FALSE, hasOutriggers |-> TRUE]

\* a structure text naming a diagrid keyword and a thick-column keyword, no
\* outrigger keyword ("Mega Exoskeleton"): two flags at once
C13_Witness ==
    /\ page = "design"
    /\ structureTextOf(result) = <<"M","e","g","a"," ","E","x","o","s","k","e","l","e","t","o","n">>
    /\ scene.topology = [hasDiagrid |-> TRUE, hasThickColumns |-> TRUE, hasOutriggers |-> FALSE]

SupportedArchetypes ==
    {"cylinder", "hexagon", "triangle", "pyramid", "prism", "box", "tapered", "twisted"}

\* C14: with geometry_params.type unset or not a supported archetype, every
\* per-floor layer (slab, facade ring, inner structural ring, insulation ring,
\* mechanical-floor block) and the column layout are those of type "box".
C14_UnsupportedTypeIsBox ==
    page = "design" /\ geoType(dataOf(result)) \notin SupportedArchetypes =>
        /\ scene.profiles.slab       = [kind |-> "box", width |-> 1000, height |-> 50,  depth |-> 1000]
        /\ scene.profiles.facade     = [kind |-> "box", width |-> 980,  height |-> 200, depth |-> 980]
        /\ scene.profiles.innerRing  = [kind |-> "box", width |-> 900,  height |-> 15,  depth |-> 900]
        /\ scene.profiles.insulation = [kind |-> "box", width |-> 950,  height |-> 8,   depth |-> 950]
        /\ scene.profiles.mechanical = [kind |-> "box", width |-> 980,  height |-> 80,  depth |-> 980]
        /\ scene.profiles.columns.count = 4
        /\ scene.profiles.columns.placement = "corners"
        /\ scene.profiles.columns = profilesOf("box").columns

\* the geometry_params of the current result are exactly g
geometryIs(g) ==
    /\ result # NoResult
    /\ has(result, "geometry_params")
    /\ result.geometry_params = g

\* floor i of the rendered model (floors are stored from index 1)
floor(i) == scene.floors[i + 1]

\* scale 1 and one degree, in the units of the floor descriptors
UnitScale == 100 * floorCount
Degree == floorCount

\* C15: whatever geometry_params holds (any taper, twist, type, or nothing),
\* floor 0 has scaleFactor exactly 1 and rotationRadians exactly 0.
C15_GroundFloorIdentity ==
    /\ floor(0).id = 0
    /\ floor(0).scale = UnitScale
    /\ floor(0).rotation = 0

\* a tower with taper 0.25 and twist 1 degree: floor 0 at scale 1 and angle 0,
\* the floors above it not
C15_Witness ==
    /\ page = "design"
    /\ geometryIs([type |-> "pyramid", taper |-> 25, twist |-> 1])
    /\ floor(0).scale = 3000
    /\ floor(1).scale < 3000
    /\ floor(1).rotation > 0

\* C16: for a taper strictly between 0 and 1, scaleFactor(i) is
\* 1 - (1 - taper) * i/30: non-increasing in i over floors 0..29 and within
\* [taper, 1]; for taper 1 it is 1 on every floor.
C16_TaperMonotone ==
    LET taper == IF result # NoResult /\ has(result, "geometry_params")
                    /\ has(result.geometry_params, "taper")
                 THEN result.geometry_params.taper ELSE 100
    IN  /\ (0 < taper /\ taper < 100) =>
              /\ \A i \in 0..29 : 30 * (100 * 30 - floor(i).scale) = (100 - taper) * i * 30
              /\ \A i \in 0..28 : floor(i + 1).scale <= floor(i).scale
              /\ \A i \in 0..29 : taper * 30 <= floor(i).scale /\ floor(i).scale <= UnitScale
        /\ taper = 100 => \A i \in 0..29 : floor(i).scale = UnitScale

\* taper 0.01: the top floor is the narrowest, still above the taper ratio
C16_Witness ==
    /\ page = "design"
    /\ geometryIs([type |-> "hexagon", taper |-> 1, twist |-> 45])
    /\ floor(29).scale < floor(28).scale
    /\ floor(29).scale = 3000 - 99 * 29
    /\ floor(29).scale > 1 * 30

\* C17: there are exactly 30 floors, floor i at vertical offset i * 1.2 * 2.5
\* whatever taper, twist and height are; for a twist > 0 the rotation of floor
\* i is twist * i/30: the same step between any two consecutive floors, never
\* decreasing.
C17_TwistLinear ==
    LET twistDeg == IF result # NoResult /\ has(result, "geometry_params")
                       /\ has(result.geometry_params, "twist")
                    THEN result.geometry_params.twist ELSE 0
    IN  /\ Len(scene.floors) = 30
        /\ \A i \in 0..29 : floor(i).id = i /\ floor(i).y = i * 300
        /\ twistDeg > 0 =>
              /\ \A i \in 0..29 : floor(i).rotation * 30 = twistDeg * Degree * i
              /\ \A i \in 0..28 : floor(i + 1).rotation - floor(i).rotation = twistDeg
              /\ \A i \in 0..28 : floor(i + 1).rotation >= floor(i).rotation

\* a full turn (twist 360) on a tower 450 high: floor 15 is half way round and
\* 45 above the ground
C17_Witness ==
    /\ page = "design"
    /\ has(dataOf(result), "geometry_params")
    /\ has(result.geometry_params, "twist")
    /\ result.geometry_params.twist = 360
    /\ floor(15).rotation = 180 * Degree
    /\ floor(15).y = 4500

\* C18: for {type: cylinder, height: 300, taper: 0.6, twist: 90} the model has
\* 30 floors and floor 29 has scaleFactor 1 - 0.4 * 29/30 (0.6133...) and
\* rotation 90 * 29/30 = 87 degrees.
C18_CylinderScenario ==
    geometryIs([type |-> "cylinder", height |-> 300, taper |-> 60, twist |-> 90]) =>
        /\ Len(scene.floors) = 30
        /\ 30 * floor(29).scale = 30 * UnitScale - 40 * 29 * 30
        /\ (floor(29).scale * 10000) \div UnitScale = 6133
        /\ floor(29).rotation = 87 * Degree

\* that cylinder on screen
C18_Witness ==
    /\ page = "design"
    /\ ~loading
    /\ geometryIs([type |-> "cylinder", height |-> 300, taper |-> 60, twist |-> 90])
    /\ floor(29).id = 29
    /\ scene.profiles.slab.segments = 32

\* a step of the mounted Dashboard: the page is neither entered nor left
SamePage == page = "design" /\ page' = "design"

ResponseStep == \E data \in Responses : AnalyzeResponse(data)

\* C19 as claimed: SimulationState changes in simulation-toggle steps only.
C19_OnlyToggleChangesSim ==
    [][SamePage /\ activeSim' # activeSim => ToggleStep]_vars

\* C19 amended: SimulationState changes in a simulation-toggle step or at the
\* start of a new analysis, which resets it to idle; a frame, a cutaway
\* toggle, the completion or failure of an analysis, report generation and
\* snapshot capture leave it unchanged.
C19_ToggleOrNewAnalysisChangesSim ==
    [][/\ (SamePage /\ activeSim' # activeSim =>
              ToggleStep \/ (handleAnalyze /\ activeSim' = Null))
       /\ (activeSim' # Null => ~handleAnalyze)
       /\ (activeSim' # activeSim =>
              ~(FrameStep \/ ToggleCutaway \/ ResponseStep \/ AnalyzeError
                  \/ generatePDF \/ CaptureSnapshot))]_vars

\* an analysis just started on a model that still carries the sway of a quake:
\* the state is idle again, the roll has not decayed yet
C19_Witness ==
    /\ loading
    /\ result # NoResult
    /\ activeSim = Null
    /\ time # 0
    /\ rotation.z = swayX(time, dataOf(result))
    /\ rotation.z # 0

\* C20 as claimed: a simulation toggle never changes CutawayMode, a cutaway
\* toggle negates CutawayMode and never changes SimulationState, and
\* CutawayMode changes in cutaway-toggle steps only.
C20_CutawayOnlyByToggle ==
    [][/\ (isCutaway' # isCutaway => ~ToggleStep)
       /\ (isCutaway' = isCutaway \/ activeSim' # activeSim => ~ToggleCutaway)
       /\ (SamePage /\ isCutaway' # isCutaway => ToggleCutaway)]_vars

\* C20 amended: as above, except that CutawayMode is also reset to off when
\* the view is re-created for a result with a new key, whatever
\* SimulationState is; and from every (CutawayMode, SimulationState) pair of a
\* model with a result (taken before its first frame) each neighbouring pair
\* is one toggle away, so that all 8 pairs are reachable.
C20_CutawayIndependent ==
    /\ [][/\ (isCutaway' # isCutaway => ~ToggleStep)
          /\ (isCutaway' = isCutaway \/ activeSim' # activeSim => ~ToggleCutaway)
          /\ (SamePage /\ isCutaway' # isCutaway =>
                \/ ToggleCutaway
                \/ /\ ResponseStep
                   /\ viewerKey(result') # viewerKey(result)
                   /\ ~isCutaway'
                   /\ activeSim' = activeSim)]_vars
    /\ [](page = "design" /\ result # NoResult /\ frames = 0 =>
            /\ ENABLED (ToggleCutaway /\ isCutaway' # isCutaway /\ activeSim' = activeSim)
            /\ \A m \in Buttons :
                 ENABLED (ToggleSim(m) /\ isCutaway' = isCutaway
                            /\ activeSim' = (IF activeSim = m THEN Null ELSE m)))

\* cutaway on while fire is active: the clipping plane and the hazard emissive
\* are both in the scene
C20_Witness ==
    /\ isCutaway
    /\ activeSim = "fire"
    /\ scene.clipPlanes # <<>>
    /\ scene.slab.emissive = "#ef4444"
    /\ frames = MaxFrames

\* word occurs in txt, letter case respected
occurs(txt, word) ==
    \E i \in 0..(Len(txt) - Len(word)) : \A j \in 1..Len(word) : txt[i + j] = word[j]

\* a field of a sub-object of the current result is present
resultHas(obj, field) ==
    /\ result # NoResult
    /\ obj \in DOMAIN result
    /\ field \in DOMAIN result[obj]

C22_QuakeYawOnlyWithoutCutaway ==
    [][activeSim = "quake" /\ FrameStep =>
          /\ (rotation'.y # rotation.y => ~isCutaway)
          /\ (isCutaway =>
                /\ rotation'.y = rotation.y
                /\ rotation'.z = swayX(time', dataOf(result))
                /\ rotation'.x = swayZ(time', dataOf(result)))]_vars

\* a quake frame with the cutaway off has turned the model, then the cutaway
\* was switched on and a quake frame with a non-zero torsion term ran: the
\* yaw is still the one of the first frame, roll and pitch follow the sway
C22_Witness ==
    /\ activeSim = "quake"
    /\ isCutaway
    /\ frames = 2
    /\ time = 3
    /\ twist(3, dataOf(result)) # 0
    /\ rotation.y = twist(2, dataOf(result))
    /\ rotation.y # 0
    /\ rotation.z = swayX(3, dataOf(result))
    /\ rotation.x = swayZ(3, dataOf(result))

\* C23: on every floor one column style is drawn, at the column positions of
\* the archetype: diagonal members, tilted +45 / -45 degrees by the parity of
\* the position index, when the structure text has a diagrid keyword;
\* otherwise mega columns when it has a thick-column keyword; otherwise
\* standard columns.  The outrigger keywords play no part in the style.
C23_ColumnStylePriority ==
    page = "design" =>
        LET txt   == structureTextOf(result)
            diag  == mentions(txt, diagridKeywords)
            thick == mentions(txt, thickColumnKeywords)
            cols  == scene.layers.columns
            style == IF diag THEN "diagrid" ELSE IF thick THEN "mega" ELSE "standard"
        IN  /\ cols.floors = 0..29
            /\ Len(cols.meshes) = columnLayout(geoType(dataOf(result))).count
            /\ \A k \in 1..Len(cols.meshes) :
                  /\ cols.meshes[k].style = style
                  /\ cols.meshes[k].tilt =
                        IF ~diag THEN 0 ELSE IF (k - 1) % 2 = 0 THEN 45 ELSE -45
                  /\ cols.meshes[k].radius =
                        IF diag THEN 20 ELSE IF thick THEN 60 ELSE 25

\* a hexagon tower whose text names diagrid, tube and outrigger: six diagonal
\* members with alternating tilt, drawn in the cutaway view too
C23_Witness ==
    /\ page = "design"
    /\ isCutaway
    /\ scene.topology = [hasDiagrid |-> TRUE, hasThickColumns |-> TRUE, hasOutriggers |-> TRUE]
    /\ Len(scene.layers.columns.meshes) = 6
    /\ scene.layers.columns.meshes[1].style = "diagrid"
    /\ scene.layers.columns.meshes[1].tilt = 45
    /\ scene.layers.columns.meshes[2].tilt = -45

\* C24: the belt truss ring is drawn on floor i exactly when the structure
\* text has an outrigger keyword and i mod 10 = 0 (floors 0, 10 and 20),
\* whatever the other two flags, the cutaway and the simulation state are,
\* and the columns are drawn on those floors as on every other.
C24_BeltTrussFloors ==
    page = "design" =>
        /\ scene.layers.belt.floors =
              IF mentions(structureTextOf(result), outriggerKeywords)
              THEN {0, 10, 20} ELSE {}
        /\ scene.layers.belt.floors \subseteq scene.layers.columns.floors
        /\ scene.layers.belt.geometry.kind # "none"

\* "Belt Truss": outriggers with neither diagrid nor thick columns, shown in
\* the cutaway view during the fire simulation
C24_Witness ==
    /\ page = "design"
    /\ isCutaway
    /\ activeSim = "fire"
    /\ scene.topology = [hasDiagrid |-> FALSE, hasThickColumns |-> FALSE, hasOutriggers |-> TRUE]
    /\ scene.layers.belt.floors = {0, 10, 20}
    /\ scene.layers.columns.meshes[1].style = "standard"

\* the brighter variants of the inner material layer
BrightIndigo == "#818cf8"
BrightGreen == "#22c55e"

\* C25: in the cutaway view the colour of the inner material ring is
\* determined by the resolved style category: every material text of the
\* same category gives the same colour, brighter indigo only for Smart
\* Nano-Structure and brighter green only for Eco-Resilient Bio-Skin.
C25_InnerRingFollowsCategory ==
    page = "design" /\ isCutaway =>
        LET colour   == scene.layers.innerRing.material.color
            category == scene.materialStyle.name
        IN  /\ colour = BrightIndigo => category = "Smart Nano-Structure"
            /\ colour = BrightGreen => category = "Eco-Resilient Bio-Skin"
            /\ \A r \in MaterialResponses :
                  materialStyle(r).name = category =>
                      innerLayerMaterial(materialRec(r), materialStyle(r)).color = colour

cutawayLayers ==
    << scene.layers.ribs, scene.layers.innerRing.floors, scene.layers.insulation,
       scene.layers.callouts.floors, scene.clipPlanes >>

swayLimit == 2 * seismicPGA(dataOf(result)) * (RadUnits \div 100)

\* C29: within one model instance |roll| and |pitch| never exceed twice the
\* seismic scale constant of the model (0.10 rad for the high tier, 0.04 rad
\* otherwise), during a quake and while the sway decays.
C29_SwayBounded ==
    /\ Abs(rotation.z) <= swayLimit
    /\ Abs(rotation.x) <= swayLimit

\* C28: within one model instance, whatever the interleaving of simulation
\* toggles and frames, the flood plane height stays within [-5, floodRisk / 2]
\* of the model and its opacity within [0, 0.8].
C28_FloodPlaneBounded ==
    /\ restingHeight <= water.y
    /\ water.y <= floodTarget
    /\ 0 <= water.opacity
    /\ water.opacity <= floodOpacity

\* the model is within 1/d of its resting pose: roll, pitch, plane height, opacity
RestWithin(d) ==
    /\ Abs(rotation.z) < RadUnits \div d
    /\ Abs(rotation.x) < RadUnits \div d
    /\ Abs(water.y - restingHeight) < WaterUnits \div d
    /\ water.opacity < OpacityUnits \div d

\* C30: if from some frame on the simulation state stays idle while frames
\* keep being delivered, then for eps = 1/10 and eps = 1/100 there is a frame
\* from which on |roll| < eps, |pitch| < eps, the plane height is within eps
\* of -5 and the opacity is below eps; the yaw is not part of this return: an
\* idle frame adds the idle increment to it (nothing in the cutaway view)
\* and never moves it back.
C30_ReturnToRest ==
    /\ (<>[](activeSim = Null)) => <>[]RestWithin(10)
    /\ (<>[](activeSim = Null)) => <>[]RestWithin(100)
    /\ [][activeSim = Null /\ RunFrame =>
             rotation'.y = rotation.y + (IF isCutaway THEN 0 ELSE idleRate)]_vars

\* the end of a long run in which a quake was shown and then left: the model
\* is back within 1/100 of its resting pose, the yaw is not back at 0
C30_Witness ==
    /\ activeSim = Null
    /\ frames = MaxRun
    /\ time # 0
    /\ RestWithin(100)
    /\ rotation.y # 0

====
